---- MODULE Spec2Model ----
(***************************************************************************)
(* Model of survey_analysis.py: the adjective splitter and validator, the  *)
(* description tokenizer and noun extractor, the row-processing loop with  *)
(* its per-image and overall accumulators, the Counter frequency tables    *)
(* and the padded CSV column construction.                                 *)
(*                                                                         *)
(* A string is a sequence of atoms.  An atom is one lexical unit: a word,  *)
(* a number, a punctuation mark or one whitespace character.  The regular  *)
(* expressions of the program never cut inside a word, so every string     *)
(* operation of the program is expressed on atoms.  The spaCy pipeline is  *)
(* an external annotator; it is modelled by a fixed lexicon (Lemma, Pos,   *)
(* IsAlpha, IsStop) applied atom by atom.                                  *)
(***************************************************************************)
EXTENDS Integers, Sequences, FiniteSets, TLC

(* ---------------- bounds of the model ---------------- *)
MaxRows == 2
MaxLen == 3
MaxCandLen == 1
MaxCands == 2

(* ---------------- strings ---------------- *)
EmptyStr == <<>>
Space == <<" ">>

IsSpace(c) == c \in {" ", "\t"}

\* variant: the separator class without the semicolon
IsSepChar_NoSemicolon(c) == c = "," \/ IsSpace(c)

IsSepChar(c) == c \in {",", ";"} \/ IsSpace(c)

Lower(c) ==
    CASE c = "Bright" -> "bright"
      [] c = "Houses" -> "houses"
      [] OTHER -> c

LowerStr(s) == [k \in 1..Len(s) |-> Lower(s[k])]

RECURSIVE LStrip(_)
LStrip(s) == IF s = <<>> \/ ~IsSpace(Head(s)) THEN s ELSE LStrip(Tail(s))

RECURSIVE RStrip(_)
RStrip(s) ==
    IF s = <<>> \/ ~IsSpace(s[Len(s)]) THEN s ELSE RStrip(SubSeq(s, 1, Len(s) - 1))

Strip(s) == RStrip(LStrip(s))

RECURSIVE ReSubWs(_)
ReSubWs(s) ==
    IF s = <<>> THEN <<>>
    ELSE IF IsSpace(Head(s)) THEN Space \o ReSubWs(LStrip(s))
    ELSE <<Head(s)>> \o ReSubWs(Tail(s))

RECURSIVE TakeNonSep(_)
TakeNonSep(s) ==
    IF s = <<>> \/ IsSepChar(Head(s)) THEN <<>>
    ELSE <<Head(s)>> \o TakeNonSep(Tail(s))

RECURSIVE SkipSep(_)
SkipSep(s) == IF s = <<>> \/ ~IsSepChar(Head(s)) THEN s ELSE SkipSep(Tail(s))

RECURSIVE ReSplit(_)
ReSplit(s) ==
    LET piece == TakeNonSep(s)
        rest == SubSeq(s, Len(piece) + 1, Len(s))
    IN  IF rest = <<>> THEN <<piece>>
        ELSE <<piece>> \o ReSplit(SkipSep(rest))

RECURSIVE Join(_, _)
Join(sep, parts) ==
    IF parts = <<>> THEN EmptyStr
    ELSE IF Len(parts) = 1 THEN parts[1]
    ELSE parts[1] \o sep \o Join(sep, Tail(parts))

(* ---------------- cell values ---------------- *)
NaN == [isna |-> TRUE, s |-> <<>>]
Text(s) == [isna |-> FALSE, s |-> s]
isna(x) == x.isna
str(x) == x.s

(* ---------------- the annotator ---------------- *)
Lemma(c) ==
    CASE c \in {"brightest", "Bright"} -> "bright"
      [] c \in {"houses", "Houses"} -> "house"
      [] OTHER -> c

Pos(c) ==
    CASE c \in {"bright", "brightest", "red", "Bright"} -> "ADJ"
      [] c \in {"house", "houses", "Houses"} -> "NOUN"
      [] c = "paris" -> "PROPN"
      [] c = "very" -> "ADV"
      [] c = "a" -> "DET"
      [] c = "123" -> "NUM"
      [] IsSpace(c) -> "SPACE"
      [] OTHER -> "PUNCT"

IsAlpha(c) ==
    c \in {"bright", "brightest", "red", "Bright", "house", "houses", "Houses",
           "paris", "very", "a"}

IsStop(c) == c \in {"a", "very"}

Token(c) ==
    [text |-> c, lemma_ |-> <<Lemma(c)>>, pos_ |-> Pos(c),
     is_alpha |-> IsAlpha(c), is_stop |-> IsStop(c)]

\* A single blank after a word only separates tokens; every other atom,
\* other whitespace included, is a token of the document.
IsTokenAt(s, k) == ~(s[k] = " " /\ k > 1 /\ ~IsSpace(s[k - 1]))

RECURSIVE NlpFrom(_, _)
NlpFrom(s, k) ==
    IF k > Len(s) THEN <<>>
    ELSE (IF IsTokenAt(s, k) THEN <<Token(s[k])>> ELSE <<>>) \o NlpFrom(s, k + 1)

nlp(s) == NlpFrom(s, 1)

Lemmas(doc) == [k \in 1..Len(doc) |-> doc[k].lemma_]

(* ---------------- the four text functions ---------------- *)
\* variant: the comprehension without its "if item.strip()" filter
KeepItem_All(item) == TRUE

KeepItem(item) == Strip(item) # <<>>

extract_adjectives(adj_string) ==
    IF isna(adj_string) THEN <<>>
    ELSE LET norm == ReSubWs(Strip(LowerStr(str(adj_string))))
             items == SelectSeq(ReSplit(norm), KeepItem)
         IN  [k \in 1..Len(items) |-> Strip(items[k])]

IsContentToken(token) == token.is_alpha /\ ~token.is_stop

tokenize_description(text) ==
    IF isna(text) THEN <<>>
    ELSE LET doc == nlp(LowerStr(str(text)))
         IN  Lemmas(SelectSeq(doc, IsContentToken))

IsAlphaToken(token) == token.is_alpha

AllAlphaAdj(doc) == \A k \in 1..Len(doc) : doc[k].is_alpha => doc[k].pos_ = "ADJ"

\* variant: the candidate rebuilt from the token texts, not the lemmas
lemma_candidate_Text(doc) ==
    Join(Space, [k \in 1..Len(SelectSeq(doc, IsAlphaToken)) |->
                    <<SelectSeq(doc, IsAlphaToken)[k].text>>])

lemma_candidate(doc) == Join(Space, Lemmas(SelectSeq(doc, IsAlphaToken)))

RECURSIVE FilterLoop(_, _, _)
FilterLoop(candidates, k, valid) ==
    IF k > Len(candidates) THEN valid
    ELSE LET doc == nlp(candidates[k])
         IN  FilterLoop(candidates, k + 1,
                        IF AllAlphaAdj(doc) THEN Append(valid, lemma_candidate(doc))
                        ELSE valid)

filter_adjectives(candidates) == FilterLoop(candidates, 1, <<>>)

IsNounToken(token) ==
    token.is_alpha /\ ~token.is_stop /\ token.pos_ \in {"NOUN", "PROPN"}

extract_nouns(text) ==
    IF isna(text) THEN <<>>
    ELSE LET doc == nlp(LowerStr(str(text)))
         IN  Lemmas(SelectSeq(doc, IsNounToken))

(* ---------------- collections.Counter ---------------- *)
\* Counter(list): one entry per distinct element, in the order in which the
\* elements first occur in the list, with the number of its occurrences.
FirstSeen(list) == {k \in 1..Len(list) : \A j \in 1..(k - 1) : list[j] # list[k]}

NthFirstSeen(firsts, n) ==
    CHOOSE k \in firsts : Cardinality({j \in firsts : j <= k}) = n

Counter(list) ==
    LET firsts == FirstSeen(list)
    IN  [n \in 1..Cardinality(firsts) |->
            LET item == list[NthFirstSeen(firsts, n)]
            IN  [item |-> item,
                 count |-> Cardinality({j \in 1..Len(list) : list[j] = item})]]

\* variant: an entry goes before the entries of equal count (ties reversed)
InsertPos_Unstable(sorted, e) ==
    Cardinality({k \in 1..Len(sorted) : sorted[k].count > e.count})

\* sorted(..., key=count, reverse=True) is stable: an entry goes after every
\* entry whose count is at least its own.
InsertPos(sorted, e) == Cardinality({k \in 1..Len(sorted) : sorted[k].count >= e.count})

InsertDesc(sorted, e) ==
    LET p == InsertPos(sorted, e)
    IN  SubSeq(sorted, 1, p) \o <<e>> \o SubSeq(sorted, p + 1, Len(sorted))

RECURSIVE SortedDesc(_, _, _)
SortedDesc(counter, k, sorted) ==
    IF k > Len(counter) THEN sorted
    ELSE SortedDesc(counter, k + 1, InsertDesc(sorted, counter[k]))

most_common(counter, n) ==
    LET sorted == SortedDesc(counter, 1, <<>>)
    IN  SubSeq(sorted, 1, IF n < Len(sorted) THEN n ELSE Len(sorted))

(* ---------------- the questionnaire ---------------- *)
NumImages == 6
ImageNames == <<"Image_1", "Image_2", "Image_3", "Image_4", "Image_5", "Image_6">>
DescCols == <<"Description_1", "Description_2", "Description_3",
              "Description_4", "Description_5", "Description_6">>
AdjCols == <<"Adjectives_1", "Adjectives_2", "Adjectives_3",
             "Adjectives_4", "Adjectives_5", "Adjectives_6">>

image_pairs == [k \in 0..(NumImages - 1) |-> <<DescCols[k + 1], AdjCols[k + 1]>>]

ImageKey(k) == ImageNames[k + 1]

\* variants: no image excluded; the wrong image excluded
InOverall_All(k) == TRUE
InOverall_Image3(k) == k # 2

\* the test "i != 1" of the loop: Image 2 stays out of the overall lists
InOverall(k) == k # 1

(* ---------------- the input table ---------------- *)
CellSeq ==
    << [desc |-> Text(<<"a", " ", "bright", " ", "red", " ", "house">>),
        adj  |-> Text(<<"bright", ",", " ", "red">>)],
       [desc |-> Text(<<"Houses", " ", " ", "paris">>),
        adj  |-> Text(<<"123">>)],
       [desc |-> NaN,
        adj  |-> Text(<<" ", "\t">>)],
       [desc |-> Text(<<" ">>),
        adj  |-> NaN],
       [desc |-> Text(<<"red", " ", "paris", ",", "red">>),
        adj  |-> Text(<<"very", ";", "Bright", " ", "brightest">>)] >>

NumCells == Len(CellSeq)

CellOf(x, y, k) ==
    IF k = 2 THEN CellSeq[y]
    ELSE IF k \in {1, 3, 5} THEN CellSeq[x]
    ELSE CellSeq[(x % NumCells) + 1]

MkRow(x, y) ==
    [col \in {DescCols[k] : k \in 1..NumImages} \cup {AdjCols[k] : k \in 1..NumImages} |->
        LET k == CHOOSE n \in 1..NumImages : col \in {DescCols[n], AdjCols[n]}
        IN  IF col = DescCols[k] THEN CellOf(x, y, k).desc ELSE CellOf(x, y, k).adj]

\* Image 2 holds the cell of image 1 or a cell no other image of the row holds.
RowSet ==
    UNION {{MkRow(x, y) : y \in {x, ((x + 2) % NumCells) + 1}} : x \in 1..NumCells}

StrsUpTo(S, n) == UNION {[1..k -> S] : k \in 0..n}

TextAtoms == {" ", "\t", ",", ";", "Bright", "red", "123", "house", "a"}
CandAtoms == {"-", "123", "very", "bright", "brightest"}

TextInputs ==
    {NaN} \cup {Text(s) : s \in StrsUpTo(TextAtoms, MaxLen)}
          \cup {Text(<<"bright", ",", " ", "red", ";", " ", " ", "Bright">>)}

CandPool ==
    StrsUpTo(CandAtoms, MaxCandLen)
        \cup {<<"very", " ", "bright">>, <<"brightest", "-", "bright">>}

NoInput == [kind |-> "none", text |-> NaN, cands |-> <<>>]

(* ---------------- state ---------------- *)
VARIABLES data, index, i, image_results, all_tokens, all_adjectives, all_nouns,
          adj_stats, overall_adj_cells, overall_adj_valid_cells,
          image_frequencies, overall_description_word_freq,
          overall_adjective_freq, overall_noun_freq, max_rows, csv_data, pc,
          input, ret, fpc

accVars == <<image_results, all_tokens, all_adjectives, all_nouns, adj_stats,
             overall_adj_cells, overall_adj_valid_cells>>
freqVars == <<image_frequencies, overall_description_word_freq,
              overall_adjective_freq, overall_noun_freq>>
fnVars == <<input, ret, fpc>>
vars == <<data, index, i, accVars, freqVars, max_rows, csv_data, pc, fnVars>>

AccInit ==
    /\ image_results = [im \in {ImageNames[k] : k \in 1..NumImages} |->
                           [all_tokens |-> <<>>, adjectives |-> <<>>, nouns |-> <<>>]]
    /\ all_tokens = <<>>
    /\ all_adjectives = <<>>
    /\ all_nouns = <<>>
    /\ adj_stats = [col \in {AdjCols[k] : k \in 1..NumImages} |->
                       [cells |-> 0, valid_cells |-> 0]]
    /\ overall_adj_cells = 0
    /\ overall_adj_valid_cells = 0
    /\ image_frequencies = <<>>
    /\ overall_description_word_freq = <<>>
    /\ overall_adjective_freq = <<>>
    /\ overall_noun_freq = <<>>
    /\ max_rows = 0
    /\ csv_data = <<>>
    /\ index = 1
    /\ i = 0

Init ==
    /\ data \in StrsUpTo(RowSet, MaxRows)
    /\ AccInit
    /\ pc = IF data = <<>> THEN "freq" ELSE "loop"
    /\ input = NoInput
    /\ ret = <<>>
    /\ fpc = "off"

(* ---------------- the row loop: one (row, image) iteration ---------------- *)
ProcessCell ==
    /\ pc = "loop"
    /\ LET row == data[index]
           desc_col == image_pairs[i][1]
           adj_col == image_pairs[i][2]
           image == ImageKey(i)
           tokens == tokenize_description(row[desc_col])
           nouns == extract_nouns(row[desc_col])
           present == ~isna(row[adj_col])
           candidate_adjs == extract_adjectives(row[adj_col])
           valid_adjs == filter_adjectives(candidate_adjs)
           is_valid == valid_adjs # <<>>
       IN  /\ image_results' =
                [image_results EXCEPT
                    ![image].all_tokens = @ \o tokens,
                    ![image].nouns = @ \o nouns,
                    ![image].adjectives = IF present THEN @ \o valid_adjs ELSE @]
           /\ adj_stats' =
                IF present
                THEN [adj_stats EXCEPT
                        ![adj_col].cells = @ + 1,
                        ![adj_col].valid_cells = IF is_valid THEN @ + 1 ELSE @]
                ELSE adj_stats
           /\ overall_adj_cells' =
                IF present /\ InOverall(i) THEN overall_adj_cells + 1
                ELSE overall_adj_cells
           /\ overall_adj_valid_cells' =
                IF present /\ InOverall(i) /\ is_valid THEN overall_adj_valid_cells + 1
                ELSE overall_adj_valid_cells
           /\ all_adjectives' =
                IF present /\ InOverall(i) THEN all_adjectives \o valid_adjs
                ELSE all_adjectives
           /\ all_tokens' = IF InOverall(i) THEN all_tokens \o tokens ELSE all_tokens
           /\ all_nouns' = IF InOverall(i) THEN all_nouns \o nouns ELSE all_nouns
    /\ IF i < NumImages - 1
       THEN /\ i' = i + 1
            /\ index' = index
            /\ pc' = pc
       ELSE /\ i' = 0
            /\ index' = index + 1
            /\ pc' = IF index < Len(data) THEN "loop" ELSE "freq"
    /\ UNCHANGED <<data, freqVars, max_rows, csv_data, fnVars>>

CountFrequencies ==
    /\ pc = "freq"
    /\ image_frequencies' =
         [image \in DOMAIN image_results |->
            [description_word_freq |-> Counter(image_results[image].all_tokens),
             adjective_freq |-> Counter(image_results[image].adjectives),
             noun_freq |-> Counter(image_results[image].nouns)]]
    /\ overall_description_word_freq' = Counter(all_tokens)
    /\ overall_adjective_freq' = Counter(all_adjectives)
    /\ overall_noun_freq' = Counter(all_nouns)
    /\ pc' = "max_rows"
    /\ UNCHANGED <<data, index, i, accVars, max_rows, csv_data, fnVars>>

Max(S) == CHOOSE m \in S : \A n \in S : n <= m

ImagesMaxRows(freqs) ==
    Max({Max({Len(freqs[image].description_word_freq),
              Len(freqs[image].adjective_freq),
              Len(freqs[image].noun_freq)}) : image \in DOMAIN freqs})

ComputeMaxRows ==
    /\ pc = "max_rows"
    /\ max_rows' = Max({ImagesMaxRows(image_frequencies),
                        Len(overall_description_word_freq),
                        Len(overall_adjective_freq),
                        Len(overall_noun_freq)})
    /\ pc' = "csv"
    /\ UNCHANGED <<data, index, i, accVars, freqVars, csv_data, fnVars>>

(* ---------------- the exported columns ---------------- *)
WordCell(w) == [kind |-> "str", str |-> w, int |-> 0]
FreqCell(f) == [kind |-> "int", str |-> <<>>, int |-> f]
EmptyCell == WordCell(EmptyStr)

\* variant: one padding cell too few
Pad_OneShort(n) == [k \in 1..(n - 1) |-> EmptyCell]

Pad(n) == [k \in 1..n |-> EmptyCell]

Words(ranked) == [k \in 1..Len(ranked) |-> WordCell(ranked[k].item)]
Freqs(ranked) == [k \in 1..Len(ranked) |-> FreqCell(ranked[k].count)]

TableNames == {ImageNames[k] : k \in 1..NumImages} \cup {"Overall"}
Kinds == {"Free", "Adj", "Noun"}
ColumnKeys == TableNames \X Kinds \X {"Word", "Freq"}

ImageCounter(image, kind) ==
    CASE kind = "Free" -> image_frequencies[image].description_word_freq
      [] kind = "Adj" -> image_frequencies[image].adjective_freq
      [] kind = "Noun" -> image_frequencies[image].noun_freq

OverallCounter(kind) ==
    CASE kind = "Free" -> overall_description_word_freq
      [] kind = "Adj" -> overall_adjective_freq
      [] kind = "Noun" -> overall_noun_freq

ImageColumn(image, kind, col) ==
    LET ranked == most_common(ImageCounter(image, kind), max_rows)
    IN  (IF col = "Word" THEN Words(ranked) ELSE Freqs(ranked))
            \o Pad(max_rows - Len(ranked))

OverallColumn(kind, col) ==
    LET ranked == most_common(OverallCounter(kind), max_rows)
    IN  (IF col = "Word" THEN Words(ranked) ELSE Freqs(ranked))
            \o Pad(max_rows - Len(OverallCounter(kind)))

BuildCsv ==
    /\ pc = "csv"
    /\ csv_data' = [key \in ColumnKeys |->
                      IF key[1] = "Overall" THEN OverallColumn(key[2], key[3])
                      ELSE ImageColumn(key[1], key[2], key[3])]
    /\ pc' = "done"
    /\ UNCHANGED <<data, index, i, accVars, freqVars, max_rows, fnVars>>

Next == ProcessCell \/ CountFrequencies \/ ComputeMaxRows \/ BuildCsv

Spec == Init /\ [][Next]_vars

(* ---------------- the text functions applied to drawn inputs ---------------- *)
FnInit ==
    /\ data = <<>>
    /\ AccInit
    /\ pc = "off"
    /\ input \in
          {[kind |-> "text", text |-> t, cands |-> <<>>] : t \in TextInputs}
          \cup {[kind |-> "cands", text |-> NaN, cands |-> cs] :
                   cs \in StrsUpTo(CandPool, MaxCands)}
    /\ ret = <<>>
    /\ fpc = "start"

pipeVars == <<data, index, i, accVars, freqVars, max_rows, csv_data, pc>>

CallExtractAdjectives ==
    /\ fpc = "start"
    /\ input.kind = "text"
    /\ ret' = extract_adjectives(input.text)
    /\ fpc' = "extract_adjectives"
    /\ UNCHANGED <<pipeVars, input>>

CallTokenizeDescription ==
    /\ fpc = "start"
    /\ input.kind = "text"
    /\ ret' = tokenize_description(input.text)
    /\ fpc' = "tokenize_description"
    /\ UNCHANGED <<pipeVars, input>>

CallExtractNouns ==
    /\ fpc = "start"
    /\ input.kind = "text"
    /\ ret' = extract_nouns(input.text)
    /\ fpc' = "extract_nouns"
    /\ UNCHANGED <<pipeVars, input>>

CallFilterAdjectives ==
    /\ fpc = "start"
    /\ input.kind = "cands"
    /\ ret' = filter_adjectives(input.cands)
    /\ fpc' = "filter_adjectives"
    /\ UNCHANGED <<pipeVars, input>>

FnNext ==
    \/ CallExtractAdjectives
    \/ CallTokenizeDescription
    \/ CallExtractNouns
    \/ CallFilterAdjectives

FnSpec == FnInit /\ [][FnNext]_vars

(* ======================= properties ======================= *)
Count(list, w) == Cardinality({k \in 1..Len(list) : list[k] = w})
Elems(list) == {list[k] : k \in 1..Len(list)}
FirstIndex(list, w) == CHOOSE k \in 1..Len(list) : list[k] = w /\ \A j \in 1..(k - 1) : list[j] # w

TableCount(counter, w) ==
    LET S == {k \in 1..Len(counter) : counter[k].item = w}
    IN  IF S = {} THEN 0 ELSE counter[CHOOSE k \in S : TRUE].count

\* the rows whose cell of image k (1..6) the loop has already processed
DoneRows(k) ==
    {r \in 1..Len(data) : r < index \/ (r = index /\ k - 1 < i)}

IsBlank(x) == isna(x) \/ \A k \in 1..Len(str(x)) : IsSpace(str(x)[k])

HasAlpha(c) == \E k \in 1..Len(nlp(c)) : nlp(c)[k].is_alpha
OnlyAdj(c) == \A k \in 1..Len(nlp(c)) : nlp(c)[k].is_alpha => nlp(c)[k].pos_ = "ADJ"
Validated(c) == HasAlpha(c) /\ OnlyAdj(c)

Contribution(kind, r, k) ==
    CASE kind = "Free" -> tokenize_description(data[r][DescCols[k]])
      [] kind = "Noun" -> extract_nouns(data[r][DescCols[k]])
      [] kind = "Adj" -> filter_adjectives(extract_adjectives(data[r][AdjCols[k]]))

InTable(t, k) == IF t = "Overall" THEN k \in {1, 3, 4, 5, 6} ELSE t = ImageNames[k]

\* the input stream of a table: rows in order, images 1..6 within a row
RECURSIVE StreamFrom(_, _, _, _)
StreamFrom(t, kind, r, k) ==
    IF r > Len(data) THEN <<>>
    ELSE (IF InTable(t, k) THEN Contribution(kind, r, k) ELSE <<>>)
         \o (IF k < NumImages THEN StreamFrom(t, kind, r, k + 1)
             ELSE StreamFrom(t, kind, r + 1, 1))

Stream(t, kind) == StreamFrom(t, kind, 1, 1)

FieldOf(kind) ==
    CASE kind = "Free" -> "all_tokens" [] kind = "Adj" -> "adjectives" [] kind = "Noun" -> "nouns"

OverallList(kind) ==
    CASE kind = "Free" -> all_tokens [] kind = "Adj" -> all_adjectives [] kind = "Noun" -> all_nouns

SourceList(t, kind) ==
    IF t = "Overall" THEN OverallList(kind) ELSE image_results[t][FieldOf(kind)]

ImgCount(kind, k, w) == Count(image_results[ImageNames[k]][FieldOf(kind)], w)

OthersCount(kind, w) ==
    ImgCount(kind, 1, w) + ImgCount(kind, 3, w) + ImgCount(kind, 4, w)
        + ImgCount(kind, 5, w) + ImgCount(kind, 6, w)

AllItems ==
    UNION {Elems(SourceList(t, kind)) : t \in TableNames, kind \in Kinds}

RECURSIVE SumRows(_, _, _, _)
SumRows(S, kind, k, w) ==
    IF S = {} THEN 0
    ELSE LET r == CHOOSE x \in S : TRUE
         IN  Count(Contribution(kind, r, k), w) + SumRows(S \ {r}, kind, k, w)

Counted == pc \in {"max_rows", "csv", "done"}

\* C1: for every word the Overall lists and the Overall frequency tables
\* hold exactly the occurrences contributed by images 1,3,4,5,6, and
\* image 2 still receives its own occurrences in its per-image lists.
C1_OverallExcludesImage2 ==
    \A w \in AllItems : \A kind \in Kinds :
        /\ Count(OverallList(kind), w) = OthersCount(kind, w)
        /\ Counted => TableCount(OverallCounter(kind), w) = OthersCount(kind, w)
        /\ ImgCount(kind, 2, w) = SumRows(DoneRows(2), kind, 2, w)
        /\ Counted => TableCount(ImageCounter("Image_2", kind), w) = ImgCount(kind, 2, w)

C1_Witness ==
    /\ pc = "done"
    /\ all_tokens # <<>>
    /\ \E w \in AllItems :
          /\ ImgCount("Free", 2, w) > 0
          /\ OthersCount("Free", w) = 0
          /\ TableCount(overall_description_word_freq, w) = 0
    /\ \E w \in AllItems :
          /\ ImgCount("Adj", 2, w) > 0
          /\ TableCount(overall_adjective_freq, w) = 0

\* C2: a candidate without any alphabetic token adds nothing to the list
\* filter_adjectives returns, so the list is never longer than the number
\* of candidates that have an alphabetic token.
C2_NoAlphaCandidateDropped ==
    fpc = "filter_adjectives" =>
        Len(ret) <= Cardinality({k \in 1..Len(input.cands) : HasAlpha(input.cands[k])})

\* C3: the cells counter of every image is the number of processed rows
\* whose adjective field is neither missing nor blank, and a missing or
\* blank field adds no adjective.
C3_CellsCountNonBlank ==
    \A k \in 1..NumImages :
        LET nonblank == {r \in DoneRows(k) : ~IsBlank(data[r][AdjCols[k]])}
        IN  /\ adj_stats[AdjCols[k]].cells = Cardinality(nonblank)
            /\ \A w \in AllItems : ImgCount("Adj", k, w) = SumRows(nonblank, "Adj", k, w)

\* C4: the valid-cells counter of every image is the number of processed
\* rows whose adjective field yields a validated adjective: a candidate
\* with an alphabetic token all of whose alphabetic tokens are ADJ.
C4_ValidCellsCountValidated ==
    \A k \in 1..NumImages :
        adj_stats[AdjCols[k]].valid_cells =
            Cardinality({r \in DoneRows(k) :
                \E c \in Elems(extract_adjectives(data[r][AdjCols[k]])) : Validated(c)})

\* C5: every exported table lists each distinct item of its stream once,
\* with its number of occurrences, by descending count, equal counts in
\* the order of first occurrence in the input stream.
C5_RankedByCountThenFirstSeen ==
    pc = "done" =>
        \A t \in TableNames : \A kind \in Kinds :
            LET L == Stream(t, kind)
                n == Cardinality(Elems(L))
                W == csv_data[<<t, kind, "Word">>]
                F == csv_data[<<t, kind, "Freq">>]
            IN  /\ SourceList(t, kind) = L
                /\ n <= Len(W) /\ n <= Len(F)
                /\ \A k \in 1..n :
                      /\ W[k].str \in Elems(L)
                      /\ F[k] = FreqCell(Count(L, W[k].str))
                /\ \A j \in 1..n : \A k \in (j + 1)..n :
                      /\ W[j].str # W[k].str
                      /\ \/ F[j].int > F[k].int
                         \/ /\ F[j].int = F[k].int
                            /\ FirstIndex(L, W[j].str) < FirstIndex(L, W[k].str)

C5_Witness ==
    /\ pc = "done"
    /\ \E t \in TableNames : \E kind \in Kinds :
          LET F == csv_data[<<t, kind, "Freq">>]
              W == csv_data[<<t, kind, "Word">>]
          IN  /\ Len(F) >= 3
              /\ \E j \in 1..(Len(F) - 2) :
                    /\ F[j] = FreqCell(3) /\ F[j + 1] = FreqCell(3)
                    /\ W[j].str # W[j + 1].str
                    /\ F[j + 2].kind = "int" /\ F[j + 2].int < 3

TableLen(t, kind) == Cardinality(Elems(SourceList(t, kind)))

\* C6: all 42 columns have the length of the longest of the 21 tables;
\* a column holds all entries of its table, then only padding, and the
\* Word and Freq entries of a row belong to the same item.
C6_ColumnsPaddedToMax ==
    pc = "done" =>
        LET N == Max({TableLen(t, kind) : t \in TableNames, kind \in Kinds})
        IN  /\ DOMAIN csv_data = ColumnKeys
            /\ \A key \in ColumnKeys : Len(csv_data[key]) = N
            /\ \A t \in TableNames : \A kind \in Kinds :
                  LET L == SourceList(t, kind)
                      n == TableLen(t, kind)
                      W == csv_data[<<t, kind, "Word">>]
                      F == csv_data[<<t, kind, "Freq">>]
                  IN  /\ {W[k].str : k \in 1..n} = Elems(L)
                      /\ \A k \in 1..n :
                            W[k].kind = "str" /\ F[k] = FreqCell(Count(L, W[k].str))
                      /\ \A k \in (n + 1)..N : W[k] = EmptyCell /\ F[k] = EmptyCell

C6_Witness ==
    /\ pc = "done"
    /\ max_rows >= 3
    /\ \E t \in TableNames : \E kind \in Kinds : TableLen(t, kind) = 0
    /\ \E t \in TableNames : \E kind \in Kinds :
          /\ TableLen(t, kind) > 0 /\ TableLen(t, kind) < max_rows
          /\ csv_data[<<t, kind, "Freq">>][max_rows] = EmptyCell
    /\ TableLen("Image_2", "Free") = max_rows
    /\ TableLen("Overall", "Free") < max_rows

\* C7: among the candidates that have an alphabetic token, exactly those
\* whose alphabetic tokens are all ADJ are emitted, in candidate order with
\* duplicates, each as the lemmas of its alphabetic tokens joined by
\* single blanks.
C7_ValidatorEmitsJoinedLemmas ==
    fpc = "filter_adjectives" =>
        LET cands == input.cands
            K == {k \in 1..Len(cands) : HasAlpha(cands[k]) /\ OnlyAdj(cands[k])}
            out == SelectSeq(ret, LAMBDA x : x # EmptyStr)
        IN  /\ Len(out) = Cardinality(K)
            /\ ((\A k \in 1..Len(cands) : HasAlpha(cands[k])) => out = ret)
            /\ \A k \in K :
                  LET A == SelectSeq(nlp(cands[k]), LAMBDA tok : tok.is_alpha)
                      c == out[Cardinality({j \in K : j <= k})]
                  IN  /\ Len(c) = 2 * Len(A) - 1
                      /\ \A m \in 1..Len(A) : c[2 * m - 1] = A[m].lemma_[1]
                      /\ \A m \in 1..(Len(A) - 1) : c[2 * m] = " "

C7_Witness ==
    /\ fpc = "filter_adjectives"
    /\ input.cands = << <<"brightest", "-", "bright">>, <<"very", " ", "bright">> >>
    /\ ret = << <<"bright", " ", "bright">> >>

\* C8: on every missing and every blank field the tokenizer, the noun
\* extractor and the splitter return the empty sequence.
C8_BlankFieldsGiveEmpty ==
    (fpc \in {"extract_adjectives", "tokenize_description", "extract_nouns"}
        /\ IsBlank(input.text)) => ret = <<>>

C8_Witness ==
    /\ fpc = "extract_adjectives"
    /\ input.text = Text(<<" ", "\t">>)
    /\ ret = <<>>

IsSeparator(c) == c \in {",", ";", " ", "\t"}

\* the maximal separator-free stretches <<a, b>> of s
Runs(s) ==
    {ab \in (1..Len(s)) \X (1..Len(s)) :
        /\ ab[1] <= ab[2]
        /\ \A k \in ab[1]..ab[2] : ~IsSeparator(s[k])
        /\ (ab[1] = 1 \/ IsSeparator(s[ab[1] - 1]))
        /\ (ab[2] = Len(s) \/ IsSeparator(s[ab[2] + 1]))}

\* C9: on a non-missing field the splitter returns the lowercased maximal
\* substrings free of comma, semicolon and whitespace, left to right, with
\* duplicates; no element is empty or holds a separator.
C9_SplitterGivesMaximalRuns ==
    (fpc = "extract_adjectives" /\ ~isna(input.text)) =>
        LET s == str(input.text)
            R == Runs(s)
        IN  /\ Len(ret) = Cardinality(R)
            /\ \A ab \in R :
                  LET item == ret[Cardinality({x \in R : x[1] <= ab[1]})]
                  IN  /\ Len(item) = ab[2] - ab[1] + 1
                      /\ \A k \in 1..Len(item) : item[k] = Lower(s[ab[1] + k - 1])
            /\ \A k \in 1..Len(ret) :
                  ret[k] # EmptyStr /\ \A m \in 1..Len(ret[k]) : ~IsSeparator(ret[k][m])

C9_Witness ==
    /\ fpc = "extract_adjectives"
    /\ input.text = Text(<<"bright", ",", " ", "red", ";", " ", " ", "Bright">>)
    /\ ret = << <<"bright">>, <<"red">>, <<"bright">> >>

\* C10: the overall counters are the sums of the counters of images
\* 1,3,4,5,6, and no valid-cells counter exceeds its cells counter.
C10_OverallCountersAreSums ==
    /\ overall_adj_cells =
          adj_stats["Adjectives_1"].cells + adj_stats["Adjectives_3"].cells
          + adj_stats["Adjectives_4"].cells + adj_stats["Adjectives_5"].cells
          + adj_stats["Adjectives_6"].cells
    /\ overall_adj_valid_cells =
          adj_stats["Adjectives_1"].valid_cells + adj_stats["Adjectives_3"].valid_cells
          + adj_stats["Adjectives_4"].valid_cells + adj_stats["Adjectives_5"].valid_cells
          + adj_stats["Adjectives_6"].valid_cells
    /\ overall_adj_valid_cells <= overall_adj_cells
    /\ \A k \in 1..NumImages :
          adj_stats[AdjCols[k]].valid_cells <= adj_stats[AdjCols[k]].cells

C10_Witness ==
    /\ pc = "loop"
    /\ adj_stats["Adjectives_2"].cells > 0
    /\ adj_stats["Adjectives_2"].valid_cells > 0
    /\ overall_adj_valid_cells > 0
    /\ overall_adj_valid_cells < overall_adj_cells
====
